---- MODULE Spec2Model ----
(***************************************************************************)
(* The chat engine of nest-template: the conversation and message stores,  *)
(* the ChatService operations that run over them as sequences of awaited   *)
(* store operations, and the connection handshake of the ChatGateway.      *)
(* Every awaited store operation is one atomic step of the calling flow;   *)
(* flows interleave between their awaits.                                  *)
(***************************************************************************)
EXTENDS Integers, Sequences, FiniteSets, TLC

(* ---------------------------------------------------------------- bounds *)
NumThreads == 2
MaxConversations == 2
MaxMessages == 2
MaxTime == 2
MaxLimit == 2
MaxLog == 3
NumSockets == 2

(* ----------------------------------------------------- program constants *)
PreviewLen == 100

(* the seconds a typing key lives *)
TYPING_TTL == 3
ONLINE_STATUS_TTL == 60

(* ------------------------------------------------------------------ data *)
Users == {"A", "B", "C"}
GoneUsers == {"X"}
UserIds == Users \cup GoneUsers
Threads == 1..NumThreads
ConvIds == 1..MaxConversations
Contents == {<<"h", "i">>}
NoTime == 0

VARIABLES
    conversations,  \* the conversations collection, in insertion order
    messages,       \* the messages collection, in insertion order
    threads,        \* one record per flow of control: the call it runs and its locals
    now,            \* the wall clock read by new Date()
    presence,       \* the Presence Registry: users whose online key is set
    reader,         \* a client that pages through one conversation
    sockets,        \* the connections of the gateway: state, token, client.user, rooms
    typing,         \* the Typing Registry: <<conversation, user>> keys that are set
    adapter         \* the adapter of the socket server: "none" until startup, then
                    \* "redis" (the broker) or "local" (the default adapter)

vars ==
    <<conversations, messages, threads, now, presence, reader, sockets, typing, adapter>>

MsgIds == 1..Len(messages)
Stored == 1..Len(conversations)

Min(a, b) == IF a < b THEN a ELSE b

(* userRepository.findById(id) followed by the !user || user.isDeleted test *)
UserExists(u) == u \in Users

(* ------------------------------------------------------ conversation store *)
ParticipantSet(c) == {conversations[c].participants[1], conversations[c].participants[2]}

(* findOne({participants: {$all: [id1, id2]}, isDeleted: false}): the first match *)
FindConversation(id1, id2) ==
    LET hits == {c \in Stored : /\ {id1, id2} \subseteq ParticipantSet(c)
                                /\ ~conversations[c].isDeleted}
    IN IF hits = {} THEN 0 ELSE CHOOSE c \in hits : \A d \in hits : c <= d

(* create({participants: [id1, id2], unreadCount: {id1: 0, id2: 0}, lastMessageAt}) *)
NewConversation(id1, id2, ts) ==
    [participants |-> <<id1, id2>>,
     unreadCount |-> [u \in {id1, id2} |-> 0],
     lastMessage |-> <<>>,
     lastMessageSender |-> "-",
     lastMessageAt |-> ts,
     isDeleted |-> FALSE]

(* a variant of isParticipant whose filter leaves the participants out *)
IsParticipantAnyUser(c, u) ==
    /\ c \in Stored
    /\ ~conversations[c].isDeleted

(* findOne({_id, participants: userId, isDeleted: false}) is non-null *)
IsParticipant(c, u) ==
    /\ c \in Stored
    /\ u \in ParticipantSet(c)
    /\ ~conversations[c].isDeleted

(* conversation.unreadCount?.[userId] || 0 *)
UnreadOf(uc, u) == IF u \in DOMAIN uc THEN uc[u] ELSE 0

(* $inc: {unreadCount.<receiver>: 1}: an absent key is created *)
IncUnread(uc, r) ==
    IF r \in DOMAIN uc THEN [uc EXCEPT ![r] = @ + 1] ELSE uc @@ (r :> 1)

(* $set: {unreadCount.<user>: n} *)
SetUnread(uc, u, n) ==
    IF u \in DOMAIN uc THEN [uc EXCEPT ![u] = n] ELSE uc @@ (u :> n)

(* message.length > 100 ? message.substring(0, 100) + '...' : message *)
Preview(content) ==
    IF Len(content) > PreviewLen
    THEN SubSeq(content, 1, PreviewLen) \o <<".", ".", ".">>
    ELSE content

(* ---------------------------------------------------------- message store *)
NewMessage(c, s, r, content, ts) ==
    [conversation |-> c, sender |-> s, receiver |-> r, content |-> content,
     status |-> "sent", readAt |-> NoTime, deliveredAt |-> NoTime,
     isDeleted |-> FALSE, createdAt |-> ts]

Rank(status) == CASE status = "sent" -> 0 [] status = "delivered" -> 1 [] status = "read" -> 2

(* a variant of getUnreadMessageIds whose filter leaves the status out *)
GetUnreadMessageIdsAnyStatus(c, u) ==
    {m \in MsgIds : /\ messages[m].conversation = c
                    /\ messages[m].receiver = u
                    /\ ~messages[m].isDeleted}

(* getUnreadMessageIds: find(filter).select('_id') *)
GetUnreadMessageIds(c, u) ==
    {m \in MsgIds : /\ messages[m].conversation = c
                    /\ messages[m].receiver = u
                    /\ messages[m].status # "read"
                    /\ ~messages[m].isDeleted}

(* a variant of markAsRead whose filter leaves the status out *)
MarkAsReadAnyStatus(msgs, c, u, ts) ==
    [m \in DOMAIN msgs |->
        IF /\ msgs[m].conversation = c
           /\ msgs[m].receiver = u
           /\ ~msgs[m].isDeleted
        THEN [msgs[m] EXCEPT !.status = "read", !.readAt = ts]
        ELSE msgs[m]]

(* markAsRead: updateMany(filter, {$set: {status: READ, readAt: new Date()}}) *)
MarkAsRead(msgs, c, u, ts) ==
    [m \in DOMAIN msgs |->
        IF /\ msgs[m].conversation = c
           /\ msgs[m].receiver = u
           /\ msgs[m].status # "read"
           /\ ~msgs[m].isDeleted
        THEN [msgs[m] EXCEPT !.status = "read", !.readAt = ts]
        ELSE msgs[m]]

(* a variant of markAsDelivered whose filter leaves isDeleted out *)
MarkAsDeliveredDeletedToo(msgs, u, ts) ==
    [m \in DOMAIN msgs |->
        IF /\ msgs[m].receiver = u
           /\ msgs[m].status = "sent"
        THEN [msgs[m] EXCEPT !.status = "delivered", !.deliveredAt = ts]
        ELSE msgs[m]]

(* a variant of markAsDelivered whose filter leaves the status out *)
MarkAsDeliveredAnyStatus(msgs, u, ts) ==
    [m \in DOMAIN msgs |->
        IF /\ msgs[m].receiver = u
           /\ ~msgs[m].isDeleted
        THEN [msgs[m] EXCEPT !.status = "delivered", !.deliveredAt = ts]
        ELSE msgs[m]]

(* a variant of markAsDelivered that also stamps the messages already delivered *)
MarkAsDeliveredRestamps(msgs, u, ts) ==
    [m \in DOMAIN msgs |->
        IF /\ msgs[m].receiver = u
           /\ msgs[m].status \in {"sent", "delivered"}
           /\ ~msgs[m].isDeleted
        THEN [msgs[m] EXCEPT !.status = "delivered", !.deliveredAt = ts]
        ELSE msgs[m]]

(* markAsDelivered: updateMany(filter, {$set: {status: DELIVERED, deliveredAt: new Date()}}) *)
MarkAsDelivered(msgs, u, ts) ==
    [m \in DOMAIN msgs |->
        IF /\ msgs[m].receiver = u
           /\ msgs[m].status = "sent"
           /\ ~msgs[m].isDeleted
        THEN [msgs[m] EXCEPT !.status = "delivered", !.deliveredAt = ts]
        ELSE msgs[m]]

(* result.modifiedCount of an updateMany *)
Modified(before, after) == {m \in DOMAIN before : before[m] # after[m]}

(* updateLastMessage: findByIdAndUpdate(id, {$set: {...}, $inc: {unreadCount.<r>: 1}}) *)
UpdateLastMessage(conv, content, senderId, receiverId, ts) ==
    [conv EXCEPT !.lastMessage = Preview(content),
                 !.lastMessageSender = senderId,
                 !.lastMessageAt = ts,
                 !.unreadCount = IncUnread(@, receiverId)]

(* resetUnreadCount: findByIdAndUpdate(id, {$set: {unreadCount.<u>: 0}}) *)
ResetUnreadCount(conv, u) == [conv EXCEPT !.unreadCount = SetUnread(@, u, 0)]

(* a variant of softDelete whose filter leaves the sender out *)
SoftDeleteMatchesAnySender(m, u) ==
    /\ m \in MsgIds
    /\ ~messages[m].isDeleted

(* softDelete: findOneAndUpdate({_id, sender: userId}, {$set: {isDeleted: true}}); the
   soft-delete plugin adds isDeleted: {$ne: true} to the filter *)
SoftDeleteMatches(m, u) ==
    /\ m \in MsgIds
    /\ messages[m].sender = u
    /\ ~messages[m].isDeleted

(* ------------------------------------------ getConversationMessages (query) *)
(* sort({createdAt: -1}) over the index {conversation, isDeleted, createdAt: -1}: equal
   createdAt values come in the order of the index, which is the same for every query
   over an unchanged log *)
Newer(msgs, i, j) ==
    \/ msgs[i].createdAt > msgs[j].createdAt
    \/ msgs[i].createdAt = msgs[j].createdAt /\ i < j

RECURSIVE SortDesc(_, _)
SortDesc(msgs, S) ==
    IF S = {} THEN <<>>
    ELSE LET first == CHOOSE x \in S : \A y \in S \ {x} : Newer(msgs, x, y)
         IN <<first>> \o SortDesc(msgs, S \ {first})

Reverse(s) == [i \in 1..Len(s) |-> s[Len(s) + 1 - i]]

Visible(msgs, c) == {m \in DOMAIN msgs : msgs[m].conversation = c /\ ~msgs[m].isDeleted}

(* a variant of getConversationMessages that skips page * limit documents *)
GetConversationMessagesSkipPage(msgs, c, page, limit) ==
    LET skip == page * limit
        sorted == SortDesc(msgs, Visible(msgs, c))
        total == Len(sorted)
        found == SubSeq(sorted, skip + 1, Min(skip + limit, total))
    IN [messages |-> Reverse(found),
        total |-> total,
        hasMore |-> skip + Len(found) < total]

(* find(...).sort(...).skip(skip).limit(limit) with countDocuments, then reverse() *)
GetConversationMessages(msgs, c, page, limit) ==
    LET skip == (page - 1) * limit
        sorted == SortDesc(msgs, Visible(msgs, c))
        total == Len(sorted)
        found == SubSeq(sorted, skip + 1, Min(skip + limit, total))
    IN [messages |-> Reverse(found),
        total |-> total,
        hasMore |-> skip + Len(found) < total]

(* ---------------------------------------------------------------- threads *)
IdleThread ==
    [op |-> "idle", pc |-> "idle", user |-> "-", peer |-> "-", conv |-> 0,
     byId |-> FALSE, content |-> <<>>, err |-> "none", since |-> NoTime, msg |-> 0,
     ids |-> {}, changed |-> {}, count |-> 0, snapUnread |-> 0, unreadAfter |-> 0,
     prior |-> FALSE, page |-> 0, limit |-> 0, out |-> <<>>, hasMore |-> FALSE,
     socket |-> 0, raw |-> <<>>, tempId |-> "-", emitted |-> FALSE, emits |-> {}]

IdleReader == [conv |-> 0, limit |-> 0, page |-> 0, pages |-> <<>>, done |-> FALSE]

(* a handshake token: kind is "none", "invalid" or "valid", sub the user it names *)
NoToken == [kind |-> "none", sub |-> "-"]

(* a connection nobody has opened yet: no client.user, member of no room *)
IdleSocket == [state |-> "new", token |-> NoToken, user |-> "-", rooms |-> {}]

SocketIds == 1..NumSockets

Init ==
    /\ conversations = <<>>
    /\ messages = <<>>
    /\ threads = [t \in Threads |-> IdleThread]
    /\ now = 1
    /\ presence = {}
    /\ reader = IdleReader
    /\ sockets = [k \in SocketIds |-> IdleSocket]
    /\ typing = {}
    /\ adapter = "redis"

(* a finished call hands its result over before any flow goes on *)
NoneDone == \A s \in Threads : threads[s].pc # "done"

At(t, pc) == threads[t].pc = pc /\ NoneDone

(* a new call runs in the lowest free flow *)
CanStart(t) ==
    /\ At(t, "idle")
    /\ \A s \in Threads : s < t => threads[s].op # "idle"

Call(op, pc, user, peer) ==
    [IdleThread EXCEPT !.op = op, !.pc = pc, !.user = user, !.peer = peer, !.since = now]

Failed(call, e) == [call EXCEPT !.pc = "done", !.err = e, !.since = NoTime]

(* the clock moves on; a value nothing has read yet is not skipped *)
TimeInUse ==
    \/ \E m \in MsgIds : now \in {messages[m].createdAt, messages[m].readAt,
                                  messages[m].deliveredAt}
    \/ \E c \in Stored : conversations[c].lastMessageAt = now
    \/ \E t \in Threads : threads[t].since = now

Tick ==
    /\ NoneDone
    /\ now < MaxTime
    /\ TimeInUse
    /\ now' = now + 1
    /\ UNCHANGED <<conversations, messages, threads, presence, reader, sockets, typing, adapter>>

(* the promise of a finished call resolves and the flow is free again; a handler of the
   gateway has run its synchronous tail before *)
Return(t) ==
    /\ threads[t].pc = "done"
    /\ threads[t].socket = 0 \/ threads[t].emitted
    /\ threads' = [threads EXCEPT ![t] = IdleThread]
    /\ UNCHANGED <<conversations, messages, now, presence, reader, sockets, typing, adapter>>

(* where a call goes once it holds its conversation document *)
WithConversation(call, c, doc) ==
    IF call.op = "sendMessage"
    THEN [call EXCEPT !.pc = "createMessage", !.conv = c, !.since = now,
                      !.snapUnread = UnreadOf(doc.unreadCount, call.peer)]
    ELSE [call EXCEPT !.pc = "done", !.conv = c, !.since = NoTime]

(* findOrCreateConversation up to the answer of its findOne *)
FindOrCreate(call) ==
    LET c == FindConversation(call.user, call.peer)
    IN IF c = 0
       THEN [call EXCEPT !.pc = "create"]
       ELSE WithConversation(call, c, conversations[c])

(* ------------------------------------------------ getOrCreateConversation *)
(* the user lookup reads data that never changes: it runs with the findOne after it *)
GetOrCreateStart(t, u1, u2) ==
    /\ CanStart(t)
    /\ LET call == Call("getOrCreateConversation", "findOne", u1, u2)
       IN threads' = [threads EXCEPT ![t] =
                         IF UserExists(u2) THEN FindOrCreate(call)
                                           ELSE Failed(call, "NotFound")]
    /\ UNCHANGED <<conversations, messages, now, presence, reader, sockets, typing, adapter>>

CreateConversation(t) ==
    /\ At(t, "create")
    /\ Len(conversations) < MaxConversations
    /\ \E ts \in threads[t].since..now :
          LET doc == NewConversation(threads[t].user, threads[t].peer, ts)
          IN /\ conversations' = Append(conversations, doc)
             /\ threads' = [threads EXCEPT ![t] =
                               WithConversation(@, Len(conversations) + 1, doc)]
    /\ UNCHANGED <<messages, now, presence, reader, sockets, typing, adapter>>

(* -------------------------------------------------------- getConversation *)
(* isParticipant comes first, findById after it *)
GetConversationStart(t, c, u) ==
    /\ CanStart(t)
    /\ LET call == [Call("getConversation", "findById", u, "-")
                       EXCEPT !.conv = c, !.byId = TRUE]
       IN threads' = [threads EXCEPT ![t] =
                         IF IsParticipant(c, u) THEN call ELSE Failed(call, "Forbidden")]
    /\ UNCHANGED <<conversations, messages, now, presence, reader, sockets, typing, adapter>>

FindByIdStep(t) ==
    /\ At(t, "findById")
    /\ threads' = [threads EXCEPT ![t] =
                      IF threads[t].conv \in Stored /\ ~conversations[threads[t].conv].isDeleted
                      THEN [@ EXCEPT !.pc = "done", !.since = NoTime]
                      ELSE Failed(@, "NotFound")]
    /\ UNCHANGED <<conversations, messages, now, presence, reader, sockets, typing, adapter>>

(* ------------------------------------------------------------ sendMessage *)
(* the receiver lookup and the participant check read data that never changes: they
   run with the first read of the conversation document (findById or findOne) *)
SendCall(call) ==
    IF ~UserExists(call.peer) THEN Failed(call, "NotFound")
    ELSE IF call.conv = 0 THEN FindOrCreate(call)
    ELSE IF IsParticipant(call.conv, call.user)
         THEN WithConversation(call, call.conv, conversations[call.conv])
    ELSE Failed(call, "Forbidden")

(* POST /chat/messages: the controller passes dto.content || '' on *)
SendStart(t, s, r, c, content) ==
    /\ CanStart(t)
    /\ LET call == [Call("sendMessage", "findOne", s, r)
                       EXCEPT !.conv = c, !.byId = (c # 0), !.content = content,
                              !.raw = content]
       IN threads' = [threads EXCEPT ![t] = SendCall(call)]
    /\ UNCHANGED <<conversations, messages, now, presence, reader, sockets, typing, adapter>>

(* a variant of the step below that stores the message as delivered when the online
   key of its receiver is set *)
CreateMessageDeliversOnline(t) ==
    /\ At(t, "createMessage")
    /\ IF threads[t].content = <<>>
       THEN /\ threads' = [threads EXCEPT ![t] = Failed(@, "Validation")]
            /\ messages' = messages
       ELSE /\ Len(messages) < MaxMessages
            /\ \E ts \in threads[t].since..now :
                  messages' = Append(messages,
                      [NewMessage(threads[t].conv, threads[t].user, threads[t].peer,
                                  threads[t].content, ts)
                          EXCEPT !.status = IF threads[t].peer \in presence
                                            THEN "delivered" ELSE "sent",
                                 !.deliveredAt = IF threads[t].peer \in presence
                                                 THEN ts ELSE NoTime])
            /\ threads' = [threads EXCEPT ![t].pc = "updateLastMessage", ![t].since = now,
                                          ![t].msg = Len(messages) + 1]
    /\ UNCHANGED <<conversations, now, presence, reader, sockets, typing, adapter>>

(* content is required in the Message schema: the empty string fails validation *)
CreateMessageStep(t) ==
    /\ At(t, "createMessage")
    /\ IF threads[t].content = <<>>
       THEN /\ threads' = [threads EXCEPT ![t] = Failed(@, "Validation")]
            /\ messages' = messages
       ELSE /\ Len(messages) < MaxMessages
            /\ \E ts \in threads[t].since..now :
                  messages' = Append(messages,
                                     NewMessage(threads[t].conv, threads[t].user,
                                                threads[t].peer, threads[t].content, ts))
            /\ threads' = [threads EXCEPT ![t].pc = "updateLastMessage", ![t].since = now,
                                          ![t].msg = Len(messages) + 1]
    /\ UNCHANGED <<conversations, now, presence, reader, sockets, typing, adapter>>

(* a variant of the step below that increments at the application layer: it writes
   the count read with the conversation document, plus one *)
UpdateLastMessageReadThenWrite(t) ==
    /\ At(t, "updateLastMessage")
    /\ \E ts \in threads[t].since..now :
          conversations' = [conversations EXCEPT ![threads[t].conv] =
                               [UpdateLastMessage(@, threads[t].content, threads[t].user,
                                                  threads[t].peer, ts)
                                   EXCEPT !.unreadCount =
                                       SetUnread(conversations[threads[t].conv].unreadCount,
                                                 threads[t].peer,
                                                 threads[t].snapUnread + 1)]]
    /\ threads' = [threads EXCEPT ![t].pc = "done", ![t].since = NoTime]
    /\ UNCHANGED <<messages, now, presence, reader, sockets, typing, adapter>>

UpdateLastMessageStep(t) ==
    /\ At(t, "updateLastMessage")
    /\ \E ts \in threads[t].since..now :
          conversations' = [conversations EXCEPT ![threads[t].conv] =
                               UpdateLastMessage(@, threads[t].content, threads[t].user,
                                                 threads[t].peer, ts)]
    /\ threads' = [threads EXCEPT ![t].pc = "done", ![t].since = NoTime]
    /\ UNCHANGED <<messages, now, presence, reader, sockets, typing, adapter>>

(* ----------------------------------------------------- markMessagesAsRead *)
ReadCall(c, u, prior) ==
    LET call == [Call("markMessagesAsRead", "getUnreadIds", u, "-") EXCEPT
                    !.conv = c, !.byId = TRUE, !.prior = prior]
    IN IF IsParticipant(c, u) THEN call ELSE Failed(call, "Forbidden")

MarkReadStart(t, c, u) ==
    /\ CanStart(t)
    /\ threads' = [threads EXCEPT ![t] = ReadCall(c, u, FALSE)]
    /\ UNCHANGED <<conversations, messages, now, presence, reader, sockets, typing, adapter>>

GetUnreadIdsStep(t) ==
    /\ At(t, "getUnreadIds")
    /\ threads' = [threads EXCEPT ![t].pc = "markAsRead", ![t].since = now,
                                  ![t].ids = GetUnreadMessageIds(threads[t].conv,
                                                                 threads[t].user)]
    /\ UNCHANGED <<conversations, messages, now, presence, reader, sockets, typing, adapter>>

MarkAsReadStep(t) ==
    /\ At(t, "markAsRead")
    /\ \E ts \in threads[t].since..now :
          messages' = MarkAsRead(messages, threads[t].conv, threads[t].user, ts)
    /\ threads' = [threads EXCEPT ![t].pc = "resetUnread", ![t].since = now,
                                  ![t].changed = Modified(messages, messages'),
                                  ![t].count = Cardinality(Modified(messages, messages'))]
    /\ UNCHANGED <<conversations, now, presence, reader, sockets, typing, adapter>>

ResetUnreadStep(t) ==
    /\ At(t, "resetUnread")
    /\ conversations' = [conversations EXCEPT ![threads[t].conv] =
                            ResetUnreadCount(@, threads[t].user)]
    /\ threads' = [threads EXCEPT ![t].pc = "done", ![t].since = NoTime,
                                  ![t].unreadAfter =
                                      UnreadOf(conversations'[threads[t].conv].unreadCount,
                                               threads[t].user)]
    /\ UNCHANGED <<messages, now, presence, reader, sockets, typing, adapter>>

(* the caller of a finished markMessagesAsRead calls it again at once *)
MarkReadAgain(t) ==
    /\ threads[t].op = "markMessagesAsRead"
    /\ threads[t].pc = "done"
    /\ threads[t].err = "none"
    /\ ~threads[t].prior
    /\ threads' = [threads EXCEPT ![t] = ReadCall(threads[t].conv, threads[t].user, TRUE)]
    /\ UNCHANGED <<conversations, messages, now, presence, reader, sockets, typing, adapter>>

(* ------------------------------------------------ getConversationMessages *)
ListCall(c, u, page, limit) ==
    LET call == [Call("getConversationMessages", "find", u, "-") EXCEPT
                    !.conv = c, !.byId = TRUE, !.page = page, !.limit = limit]
    IN IF IsParticipant(c, u) THEN call ELSE Failed(call, "Forbidden")

ListStart(t, c, u, page, limit) ==
    /\ CanStart(t)
    /\ threads' = [threads EXCEPT ![t] = ListCall(c, u, page, limit)]
    /\ UNCHANGED <<conversations, messages, now, presence, reader, sockets, typing, adapter>>

(* the find and the countDocuments of one call see the same log *)
FindMessagesStep(t) ==
    /\ At(t, "find")
    /\ LET res == GetConversationMessages(messages, threads[t].conv, threads[t].page,
                                          threads[t].limit)
       IN threads' = [threads EXCEPT ![t].pc = "done", ![t].since = NoTime,
                                     ![t].out = res.messages, ![t].count = res.total,
                                     ![t].hasMore = res.hasMore]
    /\ UNCHANGED <<conversations, messages, now, presence, reader, sockets, typing, adapter>>

(* ------------------------------------------ handleConnection (the handshake) *)
(* authenticateSocket succeeds, the socket joins its user room, setUserOnline *)
ConnectStart(t, u) ==
    /\ CanStart(t)
    /\ threads' = [threads EXCEPT ![t] = Call("handleConnection", "markDelivered", u, "-")]
    /\ presence' = presence \cup {u}
    /\ UNCHANGED <<conversations, messages, now, reader, sockets, typing, adapter>>

MarkDeliveredStep(t) ==
    /\ At(t, "markDelivered")
    /\ \E ts \in threads[t].since..now :
          messages' = MarkAsDelivered(messages, threads[t].user, ts)
    /\ threads' = [threads EXCEPT ![t].pc = "done", ![t].since = NoTime,
                                  ![t].changed = Modified(messages, messages'),
                                  ![t].count = Cardinality(Modified(messages, messages'))]
    /\ UNCHANGED <<conversations, now, presence, reader, sockets, typing, adapter>>

(* ------------------------------------------------------------- softDelete *)
SoftDelete(m, u) ==
    /\ NoneDone
    /\ SoftDeleteMatches(m, u)
    /\ messages' = [messages EXCEPT ![m].isDeleted = TRUE]
    /\ UNCHANGED <<conversations, threads, now, presence, reader, sockets, typing, adapter>>

(* softDelete as a call of its own: one findOneAndUpdate, whose answer is the updated
   document, or null when the filter matches nothing *)
SoftDeleteCall(t, m, u) ==
    /\ CanStart(t)
    /\ messages' = IF SoftDeleteMatches(m, u)
                   THEN [messages EXCEPT ![m].isDeleted = TRUE]
                   ELSE messages
    /\ threads' = [threads EXCEPT ![t] =
                      [Call("softDelete", "done", u, "-") EXCEPT
                          !.since = NoTime,
                          !.msg = IF SoftDeleteMatches(m, u) THEN m ELSE 0]]
    /\ UNCHANGED <<conversations, now, presence, reader, sockets, typing, adapter>>

(* ------------------------------------------------------------ the gateway *)
UserRoom(u) == [kind |-> "user", user |-> u, num |-> 0]
ConversationRoom(c) == [kind |-> "conversation", user |-> "-", num |-> c]

(* whom an emission goes to: one connection (client.emit), the members of a room
   (server.to(room).emit) or every connection (server.emit) *)
ToSocket(k) == [kind |-> "socket", user |-> "-", num |-> k]
ToAll == [kind |-> "all", user |-> "-", num |-> 0]

Emit(event, to, user, conv, n, ids, tempId) ==
    [event |-> event, to |-> to, user |-> user, conv |-> conv, n |-> n, ids |-> ids,
     tempId |-> tempId]

(* authenticateSocket: the user of a token that verifies, null otherwise *)
AuthenticateSocket(token) == IF token.kind = "valid" THEN token.sub ELSE "-"

(* WsJwtGuard.canActivate: the token verifies and its user exists, is not deleted and
   is active *)
CanActivate(token) == token.kind = "valid" /\ UserExists(token.sub)

(* payload.content.trim() *)
RECURSIVE TrimStart(_)
TrimStart(content) ==
    IF content # <<>> /\ Head(content) = " " THEN TrimStart(Tail(content)) ELSE content

Trim(content) == Reverse(TrimStart(Reverse(TrimStart(content))))

(* conversation.participants.find((p) => !p.equals(userId)) of findById(conversationId) *)
GetOtherParticipant(c, u) ==
    IF c \notin Stored THEN "-"
    ELSE IF conversations[c].participants[1] # u THEN conversations[c].participants[1]
    ELSE IF conversations[c].participants[2] # u THEN conversations[c].participants[2]
    ELSE "-"

(* a handler of the gateway on connection k: the guard runs first and sets client.user *)
Event(op, pc, k) ==
    [Call(op, pc, sockets[k].token.sub, "-") EXCEPT !.socket = k]

Guarded(k, call, handled) ==
    IF CanActivate(sockets[k].token) THEN handled ELSE Failed(call, "AuthenticationFailed")

SetClientUser(k) ==
    sockets' = [sockets EXCEPT ![k].user =
                   IF CanActivate(sockets[k].token) THEN sockets[k].token.sub ELSE @]

(* ----------------------------------------------------- setupSocketAdapter *)
(* the socket server accepts connections once main.ts has given it an adapter *)
Listening == adapter \in {"redis", "local"}

(* a variant of the startup below without the fallback: the error of connectToRedis
   ends the startup *)
SetupSocketAdapterNoFallback ==
    /\ adapter = "none"
    /\ adapter' \in {"redis", "failed"}
    /\ UNCHANGED <<conversations, messages, threads, now, presence, reader, sockets, typing>>

(* connectToRedis connects the pub and the sub client, or throws and setupSocketAdapter
   falls back to the default adapter *)
SetupSocketAdapter ==
    /\ adapter = "none"
    /\ adapter' \in {"redis", "local"}
    /\ UNCHANGED <<conversations, messages, threads, now, presence, reader, sockets, typing>>

(* ------------------------------------------------------- handleConnection *)
HandleConnectionStart(t, k, token) ==
    /\ CanStart(t)
    /\ Listening
    /\ sockets[k].state = "new"
    /\ LET u == AuthenticateSocket(token)
           call == [Call("handleConnection", "setUserOnline", u, "-") EXCEPT !.socket = k]
       IN /\ threads' = [threads EXCEPT ![t] =
                            IF u = "-" THEN Failed(call, "Unauthenticated") ELSE call]
          /\ sockets' = [sockets EXCEPT ![k] =
                            [IdleSocket EXCEPT !.state = "connecting", !.token = token,
                                               !.rooms = IF u = "-" THEN {}
                                                         ELSE {UserRoom(u)}]]
    /\ UNCHANGED <<conversations, messages, now, presence, reader, typing, adapter>>

(* a variant of the step below that goes on without writing the registry *)
SetUserOnlineSkipped(t) ==
    /\ At(t, "setUserOnline")
    /\ threads' = [threads EXCEPT ![t].pc = "markDelivered"]
    /\ UNCHANGED <<conversations, messages, now, presence, reader, sockets, typing, adapter>>

SetUserOnlineStep(t) ==
    /\ At(t, "setUserOnline")
    /\ presence' = presence \cup {threads[t].user}
    /\ threads' = [threads EXCEPT ![t].pc = "markDelivered"]
    /\ UNCHANGED <<conversations, messages, now, reader, sockets, typing, adapter>>

(* one of the two registry writes of setUserOnline fails: the online key may be set *)
SetUserOnlineFails(t) ==
    /\ At(t, "setUserOnline")
    /\ presence' \in {presence, presence \cup {threads[t].user}}
    /\ threads' = [threads EXCEPT ![t] = Failed(@, "Unavailable")]
    /\ UNCHANGED <<conversations, messages, now, reader, sockets, typing, adapter>>

(* an awaited store operation of a handler rejects *)
StorePcs ==
    {"create", "createMessage", "updateLastMessage", "getUnreadIds", "markAsRead",
     "resetUnread", "markDelivered"}

StoreFails(t) ==
    /\ threads[t].pc \in StorePcs
    /\ NoneDone
    /\ threads[t].socket # 0
    /\ threads' = [threads EXCEPT ![t] = Failed(@, "StoreError")]
    /\ UNCHANGED <<conversations, messages, now, presence, reader, sockets, typing, adapter>>

(* ------------------------------------------------------- handleDisconnect *)
HandleDisconnectStart(t, k) ==
    /\ CanStart(t)
    /\ sockets[k].state = "open"
    /\ LET call == [Call("handleDisconnect", "setUserOffline", sockets[k].user, "-")
                       EXCEPT !.socket = k]
       IN threads' = [threads EXCEPT ![t] =
             IF sockets[k].user = "-" THEN [call EXCEPT !.pc = "done", !.since = NoTime]
             ELSE call]
    /\ sockets' = [sockets EXCEPT ![k].state = "closed", ![k].rooms = {}]
    /\ UNCHANGED <<conversations, messages, now, presence, reader, typing, adapter>>

SetUserOfflineStep(t) ==
    /\ At(t, "setUserOffline")
    /\ presence' = presence \ {threads[t].user}
    /\ threads' = [threads EXCEPT ![t].pc = "done", ![t].since = NoTime]
    /\ UNCHANGED <<conversations, messages, now, reader, sockets, typing, adapter>>

(* isUserOnline: the online key of the user is set *)
IsUserOnline(u) == u \in presence

(* the online key is written by setUserOnline alone, with ONLINE_STATUS_TTL, and the
   store drops it when that time has run out *)
ExpirePresence(u) ==
    /\ ONLINE_STATUS_TTL # 0
    /\ u \in presence
    /\ presence' = presence \ {u}
    /\ UNCHANGED <<conversations, messages, threads, now, reader, sockets, typing, adapter>>

(* ------------------------------------------------------ handleSendMessage *)
(* the checks of the handler, then chatService.sendMessage with the trimmed content *)
HandleSendMessageStart(t, k, r, c, content, tempId) ==
    /\ CanStart(t)
    /\ sockets[k].state = "open"
    /\ LET senderId == sockets[k].token.sub
           call == [Event("sendMessage", "findOne", k)
                       EXCEPT !.peer = r, !.conv = c, !.byId = (c # 0),
                              !.content = Trim(content), !.raw = content,
                              !.tempId = tempId]
       IN threads' = [threads EXCEPT ![t] =
             Guarded(k, call,
                 IF r = "-" \/ Trim(content) = <<>> THEN Failed(call, "InvalidPayload")
                 ELSE IF r = senderId THEN Failed(call, "SelfSend")
                 ELSE SendCall(call))]
    /\ SetClientUser(k)
    /\ UNCHANGED <<conversations, messages, now, presence, reader, typing, adapter>>

(* ------------------------------------------------------ the key registry *)
(* a variant of set below that never gives the key an expiry *)
RedisSetNoExpiry(keys, key, ttl) ==
    {k \in keys : k.key # key} \cup {[key |-> key, expires |-> FALSE]}

(* RedisService.set: setex when a ttl is given, set without expiry otherwise *)
RedisSet(keys, key, ttl) ==
    {k \in keys : k.key # key} \cup {[key |-> key, expires |-> ttl # 0]}

(* RedisService.delete *)
RedisDelete(keys, key) == {k \in keys : k.key # key}

(* the store drops a key whose expiry has run out *)
Expire(keys, key) == {k \in keys : k.key # key \/ ~k.expires}

SetTypingStatus(keys, c, u, isTyping) ==
    IF isTyping THEN RedisSet(keys, <<c, u>>, TYPING_TTL) ELSE RedisDelete(keys, <<c, u>>)

IsTyping(c, u) == \E k \in typing : k.key = <<c, u>>

ExpireTyping(c, u) ==
    /\ \E k \in typing : k.key = <<c, u>> /\ k.expires
    /\ typing' = Expire(typing, <<c, u>>)
    /\ UNCHANGED <<conversations, messages, threads, now, presence, reader, sockets, adapter>>

(* ------------------------------------ handleTypingStart / handleTypingStop *)
(* setTypingStatus, then getOtherParticipant; a registry error ends the handler *)
HandleTyping(t, k, c, isTyping) ==
    /\ CanStart(t)
    /\ sockets[k].state = "open"
    /\ LET userId == sockets[k].token.sub
           call == [Event(IF isTyping THEN "handleTypingStart" ELSE "handleTypingStop",
                          "done", k)
                       EXCEPT !.conv = c, !.byId = TRUE, !.since = NoTime]
       IN \E ok \in BOOLEAN :
             /\ threads' = [threads EXCEPT ![t] =
                   Guarded(k, call,
                       IF ok THEN [call EXCEPT !.peer = GetOtherParticipant(c, userId)]
                       ELSE [call EXCEPT !.err = "Unavailable"])]
             /\ typing' = IF ok /\ CanActivate(sockets[k].token)
                           THEN SetTypingStatus(typing, c, userId, isTyping)
                           ELSE typing
    /\ SetClientUser(k)
    /\ UNCHANGED <<conversations, messages, now, presence, reader, adapter>>

(* --------------------------------------------------------- handleMarkRead *)
HandleMarkReadStart(t, k, c) ==
    /\ CanStart(t)
    /\ sockets[k].state = "open"
    /\ LET call == Event("markMessagesAsRead", "getUnreadIds", k)
       IN threads' = [threads EXCEPT ![t] =
             Guarded(k, call,
                 [ReadCall(c, sockets[k].token.sub, FALSE) EXCEPT !.socket = k])]
    /\ SetClientUser(k)
    /\ UNCHANGED <<conversations, messages, now, presence, reader, typing, adapter>>

(* -------------------------------------------------- handleGetOnlineStatus *)
(* getMultipleOnlineStatus reads the online key of each user asked for; the answer is
   the acknowledgement of the event, no event is emitted *)
HandleGetOnlineStatus(t, k, userIds) ==
    /\ CanStart(t)
    /\ sockets[k].state = "open"
    /\ LET call == [Event("handleGetOnlineStatus", "done", k) EXCEPT !.since = NoTime]
       IN threads' = [threads EXCEPT ![t] =
             Guarded(k, call, [call EXCEPT !.ids = {u \in userIds : IsUserOnline(u)}])]
    /\ SetClientUser(k)
    /\ UNCHANGED <<conversations, messages, now, presence, reader, typing, adapter>>

(* ------------------------- handleJoinConversation / handleLeaveConversation *)
(* a variant of the handler below without the participant check *)
HandleJoinConversationUnchecked(t, k, c) ==
    /\ CanStart(t)
    /\ sockets[k].state = "open"
    /\ LET call == [Event("handleJoinConversation", "done", k)
                       EXCEPT !.conv = c, !.byId = TRUE, !.since = NoTime]
       IN threads' = [threads EXCEPT ![t] = Guarded(k, call, call)]
    /\ SetClientUser(k)
    /\ UNCHANGED <<conversations, messages, now, presence, reader, typing, adapter>>

HandleJoinConversation(t, k, c) ==
    /\ CanStart(t)
    /\ sockets[k].state = "open"
    /\ LET call == [Event("handleJoinConversation", "done", k)
                       EXCEPT !.conv = c, !.byId = TRUE, !.since = NoTime]
       IN threads' = [threads EXCEPT ![t] =
             Guarded(k, call,
                 IF IsParticipant(c, sockets[k].token.sub) THEN call
                 ELSE Failed(call, "NotParticipant"))]
    /\ SetClientUser(k)
    /\ UNCHANGED <<conversations, messages, now, presence, reader, typing, adapter>>

HandleLeaveConversation(t, k, c) ==
    /\ CanStart(t)
    /\ sockets[k].state = "open"
    /\ LET call == [Event("handleLeaveConversation", "done", k)
                       EXCEPT !.conv = c, !.byId = TRUE, !.since = NoTime]
       IN threads' = [threads EXCEPT ![t] = Guarded(k, call, call)]
    /\ sockets' = [sockets EXCEPT
          ![k].user = IF CanActivate(sockets[k].token) THEN sockets[k].token.sub ELSE @,
          ![k].rooms = IF CanActivate(sockets[k].token) THEN @ \ {ConversationRoom(c)}
                       ELSE @]
    /\ UNCHANGED <<conversations, messages, now, presence, reader, typing, adapter>>

(* ----------------------------------------- what a handler emits at its end *)
(* the part of a handler after its last await: the emissions of the try block, or of
   the catch block when the handler has failed; a guard that rejects makes the
   framework emit an exception event *)
Emissions(call) ==
    LET me == ToSocket(call.socket)
        ok == call.err = "none"
    IN IF call.err = "AuthenticationFailed"
          THEN {Emit("exception", me, "-", 0, 0, {}, "-")}
       ELSE IF call.op = "handleConnection"
          THEN IF ok THEN {Emit("user_online", ToAll, call.user, 0, 0, {}, "-")}
               ELSE {Emit("error", me, "-", 0, 0, {}, "-")}
       ELSE IF call.op = "handleDisconnect"
          THEN IF call.user # "-"
               THEN {Emit("user_offline", ToAll, call.user, 0, 0, {}, "-")}
               ELSE {}
       ELSE IF call.op = "sendMessage"
          THEN IF ok
               THEN {Emit("receive_message", me, call.user, call.conv, call.msg, {},
                          call.tempId),
                     Emit("receive_message", UserRoom(call.peer), call.user, call.conv,
                          call.msg, {}, call.tempId),
                     Emit("conversation_updated", me, call.user, call.conv, 0, {}, "-"),
                     Emit("conversation_updated", UserRoom(call.peer), call.user,
                          call.conv, call.snapUnread + 1, {}, "-")}
               ELSE {Emit("message_error", me, "-", 0, 0, {}, call.tempId)}
       ELSE IF call.op \in {"handleTypingStart", "handleTypingStop"}
          THEN IF ok /\ call.peer # "-"
               THEN {Emit("user_typing", UserRoom(call.peer), call.user, call.conv,
                          IF call.op = "handleTypingStart" THEN 1 ELSE 0, {}, "-")}
               ELSE {}
       ELSE IF call.op = "markMessagesAsRead"
          THEN IF ok /\ call.count > 0
               THEN {Emit("unread_count", me, "-", call.conv, 0, {}, "-")}
                    \cup (IF GetOtherParticipant(call.conv, call.user) # "-"
                          THEN {Emit("messages_read",
                                     UserRoom(GetOtherParticipant(call.conv, call.user)),
                                     call.user, call.conv, 0, call.ids, "-")}
                          ELSE {})
               ELSE {}
       ELSE IF call.op = "handleJoinConversation"
          THEN IF ok THEN {} ELSE {Emit("error", me, "-", 0, 0, {}, "-")}
       ELSE {}

(* the connections of this process an emission reaches: the adapter hands it to the
   one connection, to the members of the room, or to every connection *)
Members(to) ==
    IF to.kind = "socket" THEN {to.num}
    ELSE IF to.kind = "all"
    THEN {k \in SocketIds : sockets[k].state \in {"connecting", "open"}}
    ELSE {k \in SocketIds : to \in sockets[k].rooms}

(* a variant of the operator below that closes the connection of a handler that has
   failed *)
SocketAfterClosesOnError(call, socket) ==
    IF call.err # "none" THEN [socket EXCEPT !.state = "closed", !.rooms = {}]
    ELSE IF call.op = "handleConnection" THEN [socket EXCEPT !.state = "open"]
    ELSE IF call.op = "handleJoinConversation"
    THEN [socket EXCEPT !.rooms = @ \cup {ConversationRoom(call.conv)}]
    ELSE socket

(* the connection after the handler: open after a handshake that went through, closed
   by client.disconnect() after one that did not, in the room after a join *)
SocketAfter(call, socket) ==
    IF call.op = "handleConnection"
    THEN IF call.err = "none" THEN [socket EXCEPT !.state = "open"]
         ELSE [socket EXCEPT !.state = "closed", !.rooms = {}]
    ELSE IF call.op = "handleJoinConversation" /\ call.err = "none"
    THEN [socket EXCEPT !.rooms = @ \cup {ConversationRoom(call.conv)}]
    ELSE socket

Respond(t) ==
    /\ threads[t].pc = "done"
    /\ threads[t].socket # 0
    /\ ~threads[t].emitted
    /\ threads' = [threads EXCEPT ![t].emitted = TRUE, ![t].emits = Emissions(threads[t])]
    /\ sockets' = [sockets EXCEPT ![threads[t].socket] = SocketAfter(threads[t], @)]
    /\ UNCHANGED <<conversations, messages, now, presence, reader, typing, adapter>>

(* ------------------------------------------------------------ the program *)
(* The calls of a flow, over the pairs of users it is given. A and B talk to each
   other, C is a third user and X is a user that does not exist. *)
CreateSteps(t, pairs) ==
    \E p \in pairs : GetOrCreateStart(t, p[1], p[2])

SendSteps(t, pairs, byIdPairs) ==
    \/ \E p \in pairs, content \in Contents : SendStart(t, p[1], p[2], 0, content)
    \/ \E p \in byIdPairs, c \in ConvIds, content \in Contents :
          SendStart(t, p[1], p[2], c, content)
    \/ CreateConversation(t)
    \/ CreateMessageStep(t)
    \/ UpdateLastMessageStep(t)

ConnectSteps(t, users) ==
    \/ \E u \in users : ConnectStart(t, u)
    \/ MarkDeliveredStep(t)

MarkReadSteps(t, users) ==
    \/ \E c \in ConvIds, u \in users : MarkReadStart(t, c, u)
    \/ GetUnreadIdsStep(t)
    \/ MarkAsReadStep(t)
    \/ ResetUnreadStep(t)

ListSteps(t, users) ==
    \/ \E c \in ConvIds, u \in users : ListStart(t, c, u, 1, MaxLimit)
    \/ FindMessagesStep(t)

ReadSteps(t, users) == MarkReadSteps(t, users) \/ ListSteps(t, users)

Delete(users) == \E m \in 1..MaxMessages, u \in users : SoftDelete(m, u)

(* concurrent flows: A sends to B, B connects and reads, C tries the same from outside,
   A deletes *)
Next ==
    \/ \E t \in Threads :
          SendSteps(t, {<<"A", "B">>}, {<<"A", "B">>, <<"C", "A">>, <<"C", "X">>})
    \/ \E t \in Threads : ConnectSteps(t, {"B"})
    \/ \E t \in Threads : ReadSteps(t, {"B", "C"})
    \/ \E t \in Threads : Return(t)
    \/ Delete({"A"})

Spec == Init /\ [][Next]_vars

(* concurrent flows that open conversations and send, and never read *)
NextSend ==
    \/ \E t \in Threads : CreateSteps(t, {<<"A", "B">>, <<"B", "A">>, <<"A", "X">>})
    \/ \E t \in Threads :
          SendSteps(t, {<<"A", "B">>, <<"B", "A">>, <<"A", "A">>, <<"B", "X">>},
                       {<<"A", "B">>, <<"B", "A">>, <<"A", "C">>})
    \/ \E t \in Threads : Return(t)

SpecSend == Init /\ [][NextSend]_vars

(* one flow of control, no deletion *)
NextSeq ==
    \/ CreateSteps(1, {<<"A", "B">>, <<"C", "B">>, <<"A", "X">>})
    \/ SendSteps(1, {<<"A", "B">>, <<"B", "A">>, <<"C", "B">>, <<"A", "A">>},
                    {<<"A", "B">>, <<"B", "A">>})
    \/ ConnectSteps(1, {"A", "B"})
    \/ ReadSteps(1, {"A", "B"})
    \/ MarkReadAgain(1)
    \/ Return(1)
    \/ Tick

SpecSeq == Init /\ [][NextSeq]_vars

(* one flow of control with deletion: A, B and C send, A and B connect, B marks read,
   A and C delete messages of their own *)
NextDeliver ==
    \/ SendSteps(1, {<<"A", "B">>, <<"B", "A">>, <<"C", "B">>}, {<<"A", "B">>})
    \/ ConnectSteps(1, {"A", "B"})
    \/ MarkReadSteps(1, {"B"})
    \/ Return(1)
    \/ Delete({"A", "C"})

SpecDeliver == Init /\ [][NextDeliver]_vars

(* ------------------------------------------------ the gateway, one flow *)
(* the tokens a client may present: none, one that does not verify, and signed tokens
   of A, B, C and of the deleted user X *)
Tokens ==
    {NoToken, [kind |-> "invalid", sub |-> "-"]}
        \cup {[kind |-> "valid", sub |-> u] : u \in {"A", "B", "C", "X"}}

(* the contents a client may send: text, text with blanks around it, blanks, nothing *)
RawContents == {<<"h", "i">>, <<" ", "h", " ">>, <<" ">>, <<>>}

TempIds == {"-", "t1"}

ConnectionSteps(t, tokens) ==
    \/ \E k \in SocketIds, token \in tokens : HandleConnectionStart(t, k, token)
    \/ SetUserOnlineStep(t)
    \/ SetUserOnlineFails(t)
    \/ MarkDeliveredStep(t)
    \/ \E k \in SocketIds : HandleDisconnectStart(t, k)
    \/ SetUserOfflineStep(t)

SendMessageSteps(t, receivers, contents) ==
    \/ \E k \in SocketIds, r \in receivers, c \in {0} \cup ConvIds, content \in contents,
          tempId \in TempIds : HandleSendMessageStart(t, k, r, c, content, tempId)
    \/ CreateConversation(t)
    \/ CreateMessageStep(t)
    \/ UpdateLastMessageStep(t)

ReadEventSteps(t) ==
    \/ \E k \in SocketIds, c \in ConvIds : HandleMarkReadStart(t, k, c)
    \/ GetUnreadIdsStep(t)
    \/ MarkAsReadStep(t)
    \/ ResetUnreadStep(t)

RoomEventSteps(t) ==
    \/ \E k \in SocketIds, c \in ConvIds, isTyping \in BOOLEAN : HandleTyping(t, k, c, isTyping)
    \/ \E k \in SocketIds, c \in ConvIds : HandleJoinConversation(t, k, c)
    \/ \E k \in SocketIds, c \in ConvIds : HandleLeaveConversation(t, k, c)

(* connections come and go, one handler at a time, while A sends to B over HTTP; the
   one inbound event of a connection is leave_conversation *)
NextHandshake ==
    \/ SendSteps(1, {<<"A", "B">>}, {<<"A", "B">>})
    \/ ConnectionSteps(1, Tokens)
    \/ \E k \in SocketIds, c \in ConvIds : HandleLeaveConversation(1, k, c)
    \/ StoreFails(1)
    \/ Respond(1)
    \/ Return(1)

SpecHandshake == Init /\ [][NextHandshake]_vars

(* the first connection is A's, the others are B's or C's *)
TokenOf(u) == [kind |-> "valid", sub |-> u]

TokensOf(k) == IF k = 1 THEN {TokenOf("A")} ELSE {TokenOf("B"), TokenOf("C")}

OpenSteps(t) ==
    \/ \E k \in SocketIds : \E token \in TokensOf(k) : HandleConnectionStart(t, k, token)
    \/ SetUserOnlineStep(t)
    \/ MarkDeliveredStep(t)

(* A, B and C connect, send messages and mark them read, one handler at a time *)
NextEvents ==
    \/ OpenSteps(1)
    \/ SendMessageSteps(1, {"-", "A", "B", "X"}, {<<"h", "i">>, <<" ">>})
    \/ ReadEventSteps(1)
    \/ StoreFails(1)
    \/ Respond(1)
    \/ Return(1)

SpecEvents == Init /\ [][NextEvents]_vars

(* A, B and C connect, type, join and leave conversation rooms, one handler at a time,
   while A and C send to B over HTTP *)
NextRooms ==
    \/ OpenSteps(1)
    \/ SendSteps(1, {<<"A", "B">>, <<"C", "B">>}, {<<"A", "B">>})
    \/ RoomEventSteps(1)
    \/ Respond(1)
    \/ Return(1)

SpecRooms == Init /\ [][NextRooms]_vars

(* concurrent handlers of the gateway: the connections open and send to A and to B *)
NextSockets ==
    \/ \E t \in Threads : OpenSteps(t)
    \/ \E t \in Threads : SendMessageSteps(t, {"A", "B"}, Contents)
    \/ \E t \in Threads : Respond(t)
    \/ \E t \in Threads : Return(t)

SpecSockets == Init /\ [][NextSockets]_vars

(* A sends to B and to itself, over its connections and over HTTP, one call at a time *)
NextEntry ==
    \/ \E k \in SocketIds : HandleConnectionStart(1, k, TokenOf("A"))
    \/ SetUserOnlineStep(1)
    \/ MarkDeliveredStep(1)
    \/ SendMessageSteps(1, {"A", "B"}, RawContents)
    \/ \E r \in {"A", "B"}, c \in {0} \cup ConvIds, content \in RawContents :
          SendStart(1, "A", r, c, content)
    \/ Respond(1)
    \/ Return(1)

SpecEntry == Init /\ [][NextEntry]_vars

(* concurrent sends between A and B while the clock moves *)
NextClock ==
    \/ \E t \in Threads : SendSteps(t, {<<"A", "B">>, <<"B", "A">>}, {<<"A", "B">>})
    \/ \E t \in Threads : Return(t)
    \/ Tick

SpecClock == Init /\ [][NextClock]_vars

(* concurrent flows while the clock moves: A sends to B, B connects and reads *)
NextStamps ==
    \/ \E t \in Threads : SendSteps(t, {<<"A", "B">>}, {<<"A", "B">>})
    \/ \E t \in Threads : ConnectSteps(t, {"B"})
    \/ \E t \in Threads : MarkReadSteps(t, {"B"})
    \/ \E t \in Threads : Return(t)
    \/ Tick

SpecStamps == Init /\ [][NextStamps]_vars

(* A and B send to each other, B connects and reads, and A, B and C ask for the deletion
   of any message, one call at a time *)
NextDelete ==
    \/ SendSteps(1, {<<"A", "B">>, <<"B", "A">>}, {<<"A", "B">>})
    \/ ConnectSteps(1, {"B"})
    \/ MarkReadSteps(1, {"B"})
    \/ \E m \in 1..MaxMessages, u \in {"A", "B", "C"} : SoftDeleteCall(1, m, u)
    \/ Return(1)

SpecDelete == Init /\ [][NextDelete]_vars

(* the application starts, with or without the broker, and listens (main.ts awaits
   setupSocketAdapter before app.listen); then A and B connect and send to each other
   over the gateway and over HTTP, one call at a time *)
InitStartup ==
    /\ conversations = <<>>
    /\ messages = <<>>
    /\ threads = [t \in Threads |-> IdleThread]
    /\ now = 1
    /\ presence = {}
    /\ reader = IdleReader
    /\ sockets = [k \in SocketIds |-> IdleSocket]
    /\ typing = {}
    /\ adapter = "none"

NextStartup ==
    \/ SetupSocketAdapter
    \/ \E k \in SocketIds, u \in {"A", "B"} : HandleConnectionStart(1, k, TokenOf(u))
    \/ SetUserOnlineStep(1)
    \/ MarkDeliveredStep(1)
    \/ SendMessageSteps(1, {"A", "B"}, Contents)
    \/ Listening /\ SendSteps(1, {<<"A", "B">>, <<"B", "A">>}, {<<"A", "B">>})
    \/ Respond(1)
    \/ Return(1)

SpecStartup == InitStartup /\ [][NextStartup]_vars

(* A, B and C send, and fetch single conversations, one call at a time *)
NextFetch ==
    \/ SendSteps(1, {<<"A", "B">>, <<"B", "A">>, <<"C", "B">>}, {<<"A", "B">>})
    \/ \E c \in ConvIds, u \in Users : GetConversationStart(1, c, u)
    \/ FindByIdStep(1)
    \/ Return(1)

SpecFetch == Init /\ [][NextFetch]_vars

(* A, B and C connect, type and disconnect, one handler at a time, while typing keys
   run out; the store drops every key whose expiry has run out *)
NextTyping ==
    \/ OpenSteps(1)
    \/ \E k \in SocketIds, c \in ConvIds, isTyping \in BOOLEAN : HandleTyping(1, k, c, isTyping)
    \/ \E k \in SocketIds : HandleDisconnectStart(1, k)
    \/ SetUserOfflineStep(1)
    \/ \E c \in ConvIds, u \in Users : ExpireTyping(c, u)
    \/ Respond(1)
    \/ Return(1)

SpecTyping ==
    /\ Init
    /\ [][NextTyping]_vars
    /\ \A c \in ConvIds, u \in Users : WF_vars(ExpireTyping(c, u))

(* A and B connect, each on any connection, send an event that makes the guard set
   client.user, and disconnect, while the store lets the online keys expire *)
NextPresence ==
    \/ \E k \in SocketIds, u \in {"A", "B"} : HandleConnectionStart(1, k, TokenOf(u))
    \/ SetUserOnlineStep(1)
    \/ MarkDeliveredStep(1)
    \/ \E k \in SocketIds, c \in ConvIds : HandleJoinConversation(1, k, c)
    \/ \E k \in SocketIds : HandleDisconnectStart(1, k)
    \/ SetUserOfflineStep(1)
    \/ \E u \in Users : ExpirePresence(u)
    \/ Respond(1)
    \/ Return(1)

SpecPresence == Init /\ [][NextPresence]_vars

(* A sends to B over HTTP and over its connection; B is connected or connects, on the
   one connection or the other; both send typing events, ask for online statuses and
   mark conversations read, one call at a time *)
NextDelivery ==
    \/ \E k \in SocketIds : \E u \in (IF k = 1 THEN {"A", "B"} ELSE {"B"}) :
          HandleConnectionStart(1, k, TokenOf(u))
    \/ SetUserOnlineStep(1)
    \/ MarkDeliveredStep(1)
    \/ SendMessageSteps(1, {"B"}, {<<"h", "i">>})
    \/ SendSteps(1, {<<"A", "B">>}, {<<"A", "B">>})
    \/ ReadEventSteps(1)
    \/ \E k \in SocketIds, c \in ConvIds, isTyping \in BOOLEAN :
          HandleTyping(1, k, c, isTyping)
    \/ \E k \in SocketIds : HandleGetOnlineStatus(1, k, {"A", "B"})
    \/ Respond(1)
    \/ Return(1)

SpecDelivery == Init /\ [][NextDelivery]_vars

(* ---------------------------------------------------- paging through a log *)
(* the stored logs the reader is tried on: A wrote to B in conversation 1, C wrote to B
   in conversation 2, some messages are deleted, and concurrent senders may have
   stored their messages out of createdAt order *)
StoredMessage(c, ts, deleted) ==
    [NewMessage(c, IF c = 1 THEN "A" ELSE "C", "B", <<"h", "i">>, ts)
        EXCEPT !.isDeleted = deleted]

LoggedMessages ==
    {StoredMessage(c, ts, d) : c \in 1..2, ts \in 1..MaxTime, d \in BOOLEAN}

Logs == UNION {[1..n -> LoggedMessages] : n \in 0..MaxLog}

RECURSIVE Summarise(_, _, _)
Summarise(conv, log, c) ==
    IF log = <<>> THEN conv
    ELSE LET m == Head(log)
             next == IF m.conversation = c
                     THEN UpdateLastMessage(conv, m.content, m.sender, m.receiver,
                                            m.createdAt)
                     ELSE conv
         IN Summarise(next, Tail(log), c)

InitPage ==
    /\ messages \in Logs
    /\ conversations = <<Summarise(NewConversation("A", "B", 1), messages, 1),
                         Summarise(NewConversation("C", "B", 1), messages, 2)>>
    /\ threads = [t \in Threads |-> IdleThread]
    /\ now = MaxTime
    /\ presence = {}
    /\ sockets = [k \in SocketIds |-> IdleSocket]
    /\ typing = {}
    /\ adapter = "redis"
    /\ \E limit \in 1..MaxLimit :
          reader = [IdleReader EXCEPT !.conv = 1, !.limit = limit, !.page = 1]

(* the reader asks for its next page *)
PageStart ==
    /\ ~reader.done
    /\ ListStart(1, reader.conv, "B", reader.page, reader.limit)

PageFind == FindMessagesStep(1)

(* the reader keeps the page and goes on while hasMore is set *)
PageCollect ==
    /\ threads[1].pc = "done"
    /\ threads[1].op = "getConversationMessages"
    /\ reader' = [reader EXCEPT !.pages = Append(@, threads[1].out),
                                !.page = @ + 1,
                                !.done = ~threads[1].hasMore]
    /\ threads' = [threads EXCEPT ![1] = IdleThread]
    /\ UNCHANGED <<conversations, messages, now, presence, sockets, typing, adapter>>

NextPage == PageStart \/ PageFind \/ PageCollect

SpecPage == InitPage /\ [][NextPage]_vars

(* ================================================================ properties *)
SamePair(c, d) ==
    /\ ~conversations[c].isDeleted
    /\ ~conversations[d].isDeleted
    /\ ParticipantSet(c) = ParticipantSet(d)
    /\ Cardinality(ParticipantSet(c)) = 2

(* C1: after any interleaving of getOrCreateConversation and sendMessage calls without
   a conversationId, at most one non-deleted conversation exists per unordered pair of
   participants, and every call of the pair holds that conversation. *)
PairUnique ==
    /\ \A c, d \in Stored : SamePair(c, d) => c = d
    /\ \A t \in Threads :
          (threads[t].conv \in Stored /\ ~threads[t].byId /\ threads[t].user # threads[t].peer)
              => threads[t].conv = FindConversation(threads[t].user, threads[t].peer)

(* the messages of conversation c addressed to u *)
SentTo(c, u) == {m \in MsgIds : messages[m].conversation = c /\ messages[m].receiver = u}

(* the sendMessage calls that have stored their message in c for u and have not yet
   updated the conversation *)
SendsInFlight(c, u) ==
    {t \in Threads : /\ threads[t].op = "sendMessage"
                     /\ threads[t].pc = "updateLastMessage"
                     /\ threads[t].conv = c
                     /\ threads[t].peer = u}

(* C2: with no read, the unread counter of every user in every conversation is the
   number of sendMessage calls to that user that have completed in it, however the
   calls interleave: N for the receiver of N sends, 0 for a user nobody has sent to. *)
UnreadAccounting ==
    \A c \in Stored, u \in UserIds :
        UnreadOf(conversations[c].unreadCount, u)
            = Cardinality(SentTo(c, u)) - Cardinality(SendsInFlight(c, u))

(* two sends from A to B have completed in one conversation, and the one that has
   just finished had read the conversation before the other incremented the counter *)
UnreadAccountingWitness ==
    \E c \in Stored :
        /\ Cardinality({m \in SentTo(c, "B") : messages[m].sender = "A"}) = 2
        /\ SentTo(c, "A") = {}
        /\ UnreadOf(conversations[c].unreadCount, "B") = 2
        /\ \E t \in Threads : /\ threads[t].op = "sendMessage"
                                /\ threads[t].pc = "done"
                                /\ threads[t].conv = c
                                /\ threads[t].snapUnread = 0

(* C3: whatever sendMessage, markUserMessagesDelivered and markConversationRead calls
   run and however they interleave, no step moves the status of a message backwards
   in the order sent < delivered < read. *)
MonotonicStatus ==
    [][\A m \in MsgIds : Rank(messages'[m].status) >= Rank(messages[m].status)]_vars

(* a handshake has just marked the messages of its user delivered while a
   markConversationRead of the same user was under way and had already marked a
   message read *)
MonotonicStatusWitness ==
    \E t, r \in Threads, m \in MsgIds :
        /\ threads[t].op = "handleConnection"
        /\ threads[t].pc = "done"
        /\ threads[r].op = "markMessagesAsRead"
        /\ threads[r].pc = "resetUnread"
        /\ threads[r].user = threads[t].user
        /\ messages[m].receiver = threads[t].user
        /\ messages[m].status = "read"
        /\ m \in threads[r].changed

ReadDone(t) ==
    /\ threads[t].op = "markMessagesAsRead"
    /\ threads[t].pc = "done"
    /\ threads[t].err = "none"

(* C4: every markConversationRead(c, u) leaves unreadCount[u] of c at 0, and one that
   follows another with nothing in between returns count = 0 and changes no message. *)
IdempotentRead ==
    \A t \in Threads :
        ReadDone(t) =>
            /\ threads[t].unreadAfter = 0
            /\ UnreadOf(conversations[threads[t].conv].unreadCount, threads[t].user) = 0
            /\ threads[t].prior => (threads[t].count = 0 /\ threads[t].changed = {})

(* the second of two calls in a row has returned, and the first had marked a message
   read at an earlier time *)
IdempotentReadWitness ==
    \E t \in Threads, m \in MsgIds :
        /\ ReadDone(t)
        /\ threads[t].prior
        /\ messages[m].conversation = threads[t].conv
        /\ messages[m].receiver = threads[t].user
        /\ messages[m].status = "read"
        /\ messages[m].readAt < now

(* a call on a stored conversation, by id, for a user who is not one of its participants *)
Outsider(call) ==
    /\ call.op # "idle"
    /\ call.byId
    /\ call.conv \in Stored
    /\ call.user \notin ParticipantSet(call.conv)

(* the call has failed with error e and holds no data *)
Refused(call, e) ==
    /\ call.pc = "done"
    /\ call.err = e
    /\ call.msg = 0
    /\ call.ids = {}
    /\ call.changed = {}
    /\ call.count = 0
    /\ call.out = <<>>

ErrorOfOutsider(call) ==
    IF call.op = "sendMessage" /\ ~UserExists(call.peer) THEN "NotFound" ELSE "Forbidden"

(* C5, as the specification states it: every listMessages, sendMessage with a
   conversationId and markConversationRead by a user who is not a participant of the
   conversation fails with Forbidden, returns no data and changes nothing. *)
IsolationAlwaysForbidden ==
    [][\A t \in Threads :
          (threads'[t] # threads[t] /\ Outsider(threads'[t]))
              => /\ Refused(threads'[t], "Forbidden")
                 /\ UNCHANGED <<conversations, messages>>]_vars

(* C5, amended: such a call fails, returns no data and changes no message, unread
   counter or last-message summary; the error is Forbidden, except that a sendMessage
   whose receiverId names no existing user fails with NotFound. *)
Isolation ==
    [][\A t \in Threads :
          (threads'[t] # threads[t] /\ Outsider(threads'[t]))
              => /\ Refused(threads'[t], ErrorOfOutsider(threads'[t]))
                 /\ UNCHANGED <<conversations, messages>>]_vars

(* C has been refused a sendMessage into a conversation of A and B that holds a
   message for B which B has not read *)
IsolationWitness ==
    \E t \in Threads, m \in MsgIds :
        /\ Outsider(threads[t])
        /\ threads[t].op = "sendMessage"
        /\ Refused(threads[t], "Forbidden")
        /\ messages[m].conversation = threads[t].conv
        /\ messages[m].status # "read"
        /\ UnreadOf(conversations[threads[t].conv].unreadCount, "B") > 0

(* C6: the unreadCount map of every conversation has exactly one entry for each of its
   participants and no entry for any other user. *)
UnreadKeysAreParticipants ==
    \A c \in Stored : DOMAIN conversations[c].unreadCount = ParticipantSet(c)

(* the messages of c addressed to u that u has not read *)
Unread(c, u) == {m \in SentTo(c, u) : messages[m].status # "read"}

Quiet == \A t \in Threads : threads[t].pc \in {"idle", "done"}

(* between calls, the unread counter of every user is the number of messages it has
   not read *)
UnreadMatches ==
    \A c \in Stored, u \in UserIds :
        UnreadOf(conversations[c].unreadCount, u) = Cardinality(Unread(c, u))

(* a message is stored as sent and stays sent until its receiver connects or reads *)
SentUntilReceiverActs ==
    \A m \in DOMAIN messages' :
        IF m \notin MsgIds
        THEN messages'[m].status = "sent"
        ELSE (messages[m].status = "sent" /\ messages'[m].status # "sent")
                 => \E t \in Threads :
                        /\ threads[t].user = messages[m].receiver
                        /\ threads[t].pc \in {"markDelivered", "markAsRead"}
                        /\ threads'[t].pc # threads[t].pc

(* one handshake of u moves every sent message for u to delivered *)
HandshakeDeliversAll(t) ==
    (threads[t].pc = "markDelivered" /\ threads'[t].pc = "done")
        => LET sent == {m \in MsgIds : /\ messages[m].receiver = threads[t].user
                                       /\ messages[m].status = "sent"}
           IN /\ \A m \in sent : messages'[m].status = "delivered"
              /\ threads'[t].count = Cardinality(sent)

(* markConversationRead of u on c: as many ids as the unread counter said, all of them
   moved to read and counted, and the counter at 0 in the end *)
ReadMarksAll(t) ==
    LET c == threads[t].conv
        u == threads[t].user
    IN /\ (threads[t].pc = "getUnreadIds" /\ threads'[t].pc = "markAsRead")
             => /\ threads'[t].ids = Unread(c, u)
                /\ Cardinality(threads'[t].ids) = UnreadOf(conversations[c].unreadCount, u)
       /\ (threads[t].pc = "markAsRead" /\ threads'[t].pc = "resetUnread")
             => /\ threads'[t].changed = threads[t].ids
                /\ threads'[t].count = Cardinality(threads[t].ids)
                /\ \A m \in SentTo(c, u) : messages'[m].status = "read"
       /\ (threads[t].pc = "resetUnread" /\ threads'[t].pc = "done")
             => /\ UnreadOf(conversations'[c].unreadCount, u) = 0
                /\ threads'[t].ids = threads[t].ids
                /\ threads'[t].count = threads[t].count

(* C7: with one call after another, the messages sent to B stay sent and counted in
   unreadCount[B] until B acts; a handshake of B moves all of them to delivered at once;
   a markConversationRead of B then moves all of them to read, returns them all as
   count and messageIds, and leaves unreadCount[B] at 0. *)
DeliveryLifeCycle ==
    [][/\ SentUntilReceiverActs
       /\ Quiet' => UnreadMatches'
       /\ \A t \in Threads : HandshakeDeliversAll(t) /\ ReadMarksAll(t)]_vars

(* B has read the MaxMessages messages A sent it, all of them delivered by a handshake
   of B before, and the call has returned them all *)
DeliveryLifeCycleWitness ==
    \E t \in Threads :
        /\ ReadDone(t)
        /\ threads[t].user = "B"
        /\ threads[t].count = MaxMessages
        /\ Cardinality(threads[t].ids) = MaxMessages
        /\ "B" \in presence
        /\ UnreadOf(conversations[threads[t].conv].unreadCount, "B") = 0
        /\ \A m \in threads[t].ids :
              /\ messages[m].sender = "A"
              /\ messages[m].status = "read"
              /\ messages[m].deliveredAt # NoTime
              /\ messages[m].readAt # NoTime

(* what markUserMessagesDelivered(u) has to change: the non-deleted sent messages for u *)
SentFor(u) ==
    {m \in MsgIds : /\ messages[m].receiver = u
                    /\ messages[m].status = "sent"
                    /\ ~messages[m].isDeleted}

(* C8: markUserMessagesDelivered(u) moves exactly the non-deleted sent messages for u to
   delivered, in every conversation at once, and returns how many; every other message
   and every conversation stays as it is, and nothing to change is no error. *)
DeliveredExactly ==
    [][\A t \in Threads :
          (threads[t].pc = "markDelivered" /\ threads'[t].pc = "done")
              => /\ DOMAIN messages' = DOMAIN messages
                 /\ \A m \in MsgIds :
                       IF m \in SentFor(threads[t].user)
                       THEN /\ messages'[m].status = "delivered"
                            /\ [messages'[m] EXCEPT !.status = "sent", !.deliveredAt = NoTime]
                                   = messages[m]
                       ELSE messages'[m] = messages[m]
                 /\ threads'[t].count = Cardinality(SentFor(threads[t].user))
                 /\ threads'[t].err = "none"
                 /\ conversations' = conversations]_vars

(* a handshake of B has delivered one message in each of two conversations *)
DeliveredExactlyWitness ==
    \E t \in Threads, m, n \in MsgIds :
        /\ threads[t].op = "handleConnection"
        /\ threads[t].pc = "done"
        /\ threads[t].user = "B"
        /\ threads[t].count = 2
        /\ threads[t].changed = {m, n}
        /\ messages[m].conversation # messages[n].conversation
        /\ messages[m].status = "delivered"
        /\ messages[n].status = "delivered"

(* C9: markConversationRead(c, u) returns as messageIds exactly the messages it moved
   to read, and as count their number. *)
ReturnsChangedIds ==
    \A t \in Threads :
        ReadDone(t) => /\ threads[t].ids = threads[t].changed
                       /\ threads[t].count = Cardinality(threads[t].ids)

RECURSIVE Flatten(_)
Flatten(pages) == IF pages = <<>> THEN <<>> ELSE Head(pages) \o Flatten(Tail(pages))

(* seq lists every non-deleted message of conversation c once, oldest first *)
IsFullLog(seq, c) ==
    /\ {seq[i] : i \in 1..Len(seq)} = Visible(messages, c)
    /\ Len(seq) = Cardinality(Visible(messages, c))
    /\ \A i, j \in 1..Len(seq) :
          i < j => messages[seq[i]].createdAt <= messages[seq[j]].createdAt

(* C10, as the specification states it: the pages 1, 2, ... up to the first with
   hasMore = false, concatenated in page order, are the full log of non-deleted
   messages in ascending createdAt order, none twice and none missing. *)
PagesInPageOrder ==
    reader.done => IsFullLog(Flatten(reader.pages), reader.conv)

(* C10, amended: the same pages concatenated from the last page to the first are the
   full log of non-deleted messages in ascending createdAt order, none twice and none
   missing. *)
PagesLastPageFirst ==
    reader.done => IsFullLog(Flatten(Reverse(reader.pages)), reader.conv)

(* the reader has read, in more than one page, a log that holds messages of different
   times and a deleted message *)
PagesWitness ==
    /\ reader.done
    /\ Len(reader.pages) >= 2
    /\ Cardinality(Visible(messages, reader.conv)) >= 2
    /\ \E m, n \in Visible(messages, reader.conv) :
          messages[m].createdAt < messages[n].createdAt
    /\ \E m \in MsgIds : messages[m].conversation = reader.conv /\ messages[m].isDeleted

(* ------------------------------------------------------------ the gateway *)
Handshake(t, k) == threads[t].op = "handleConnection" /\ threads[t].socket = k

(* a token the handshake has to refuse: none, one that does not verify, or one of a
   user that is deleted or inactive *)
Refusable(token) == token.kind # "valid" \/ ~UserExists(token.sub)

(* C11: a connection whose handshake carries no token, a token that does not verify or
   the token of a deleted or inactive user never becomes Authenticated: it is in no
   room, its handshake never reaches the delivery pass, answers with nothing but an
   error event to that connection, and no such user is in the presence registry. *)
RefusedAtHandshake ==
    /\ \A k \in SocketIds :
          sockets[k].state # "new" /\ Refusable(sockets[k].token) =>
             /\ sockets[k].state # "open"
             /\ sockets[k].rooms = {}
             /\ \A t \in Threads :
                   Handshake(t, k) =>
                      /\ threads[t].pc = "done"
                      /\ threads[t].err # "none"
                      /\ threads[t].emitted =>
                            threads[t].emits = {Emit("error", ToSocket(k), "-", 0, 0, {}, "-")}
    /\ presence \cap GoneUsers = {}

(* C12: when an Authenticated connection has disconnected, whether or not it sent an
   inbound event before, its user is no longer in the presence registry and
   user_offline has been broadcast for that user. *)
OfflineOnDisconnect ==
    \A t \in Threads :
        threads[t].op = "handleDisconnect" /\ threads[t].emitted =>
           LET u == sockets[threads[t].socket].token.sub
           IN /\ u \notin presence
              /\ Emit("user_offline", ToAll, u, 0, 0, {}, "-") \in threads[t].emits

Online(u) == Emit("user_online", ToAll, u, 0, 0, {}, "-")

(* C13: a handshake broadcasts user_online only at its end, when the connection is in
   the room of its user, the user is in the presence registry and the delivery pass
   has left no message for the user in status sent; a handshake in which a step
   failed broadcasts nothing and answers with an error event only. *)
OnlineAfterPresenceAndDelivery ==
    \A t \in Threads :
        threads[t].op = "handleConnection" =>
           /\ threads[t].pc # "done" => threads[t].emits = {}
           /\ threads[t].emitted /\ threads[t].err # "none" =>
                 threads[t].emits =
                    {Emit("error", ToSocket(threads[t].socket), "-", 0, 0, {}, "-")}
           /\ threads[t].emitted /\ threads[t].err = "none" =>
                 /\ threads[t].emits = {Online(threads[t].user)}
                 /\ UserRoom(threads[t].user) \in sockets[threads[t].socket].rooms
                 /\ threads[t].user \in presence
                 /\ SentFor(threads[t].user) = {}

(* a handshake has delivered a message and broadcast user_online *)
OnlineWitness ==
    \E t \in Threads :
        /\ threads[t].op = "handleConnection"
        /\ threads[t].emits = {Online("B")}
        /\ threads[t].count > 0
        /\ "B" \in presence

(* a handler of the gateway that has run to its end *)
Handled(t, op) == threads[t].op = op /\ threads[t].socket # 0 /\ threads[t].emitted

SendErrors == {"InvalidPayload", "SelfSend", "NotFound", "Forbidden", "StoreError"}

(* C14: a send_message that fails, because the payload is invalid, the receiver is the
   sender, the receiver does not exist, the sender is no participant or the store
   rejects an operation, emits message_error with the tempId of the payload to the
   calling connection and nothing else, and leaves the connection open. *)
SendFailureAnswersCaller ==
    \A t \in Threads :
        Handled(t, "sendMessage") /\ threads[t].err # "none" =>
           /\ threads[t].err \in SendErrors
           /\ threads[t].emits =
                 {Emit("message_error", ToSocket(threads[t].socket), "-", 0, 0, {},
                       threads[t].tempId)}
           /\ sockets[threads[t].socket].state = "open"

(* a send_message with a tempId has failed at the store after its message was stored *)
SendFailureWitness ==
    \E t \in Threads :
        /\ Handled(t, "sendMessage")
        /\ threads[t].err = "StoreError"
        /\ threads[t].tempId = "t1"
        /\ threads[t].msg # 0

InboundOps ==
    {"sendMessage", "handleTypingStart", "handleTypingStop", "markMessagesAsRead",
     "handleJoinConversation"}

ErrorEvents == {"error", "message_error", "exception"}

(* C15: an inbound event (send_message, typing_start, typing_stop, mark_read,
   join_conversation) whose handler hits an error leaves the connection open and
   emits an error event to the calling connection. *)
ErrorAnswersCaller ==
    \A t \in Threads :
        /\ threads[t].op \in InboundOps
        /\ threads[t].socket # 0
        /\ threads[t].emitted
        /\ threads[t].err # "none"
        => /\ sockets[threads[t].socket].state = "open"
           /\ \E e \in threads[t].emits :
                 e.event \in ErrorEvents /\ e.to = ToSocket(threads[t].socket)

(* C16: a send_message that succeeds emits receive_message to the calling connection
   and to the room of the receiver, and conversation_updated to both: the copy of the
   sender carries unreadCount 0, the copy of the receiver the stored unreadCount of the
   receiver as it is right after the increment of this send. *)
SendSuccessEmits ==
    \A t \in Threads :
        Handled(t, "sendMessage") /\ threads[t].err = "none" =>
           LET call == threads[t]
               me == ToSocket(call.socket)
               room == UserRoom(call.peer)
           IN call.emits =
                 {Emit("receive_message", me, call.user, call.conv, call.msg, {},
                       call.tempId),
                  Emit("receive_message", room, call.user, call.conv, call.msg, {},
                       call.tempId),
                  Emit("conversation_updated", me, call.user, call.conv, 0, {}, "-"),
                  Emit("conversation_updated", room, call.user, call.conv,
                       UnreadOf(conversations[call.conv].unreadCount, call.peer), {}, "-")}

(* C17: what a typing event emits is user_typing to the room of the other participant
   of the conversation, and a typing event of a user who is no participant of the
   conversation emits nothing. *)
TypingToPeerOnly ==
    \A t \in Threads :
        \/ Handled(t, "handleTypingStart")
        \/ Handled(t, "handleTypingStop")
        => LET call == threads[t]
           IN IF IsParticipant(call.conv, call.user)
              THEN \A e \in call.emits :
                      /\ e.event = "user_typing"
                      /\ e.to.kind = "user"
                      /\ e.to.user \in ParticipantSet(call.conv) \ {call.user}
              ELSE call.emits = {}

(* C18: a join_conversation of a user who is no participant of the conversation, or
   for a conversation that does not exist, emits an error event to the calling
   connection and joins no room; a connection is only ever in the conversation rooms
   of conversations its user is a participant of. *)
JoinOnlyParticipants ==
    /\ \A t \in Threads :
          /\ Handled(t, "handleJoinConversation")
          /\ ~IsParticipant(threads[t].conv, threads[t].user)
          => /\ threads[t].emits =
                   {Emit("error", ToSocket(threads[t].socket), "-", 0, 0, {}, "-")}
             /\ ConversationRoom(threads[t].conv) \notin sockets[threads[t].socket].rooms
    /\ \A k \in SocketIds :
          \A room \in sockets[k].rooms :
              room.kind = "conversation" => IsParticipant(room.num, sockets[k].token.sub)

(* a connection is in the room of a conversation of its user, and the join of another
   connection for the same conversation has been refused *)
JoinWitness ==
    \E t \in Threads, k \in SocketIds :
        /\ Handled(t, "handleJoinConversation")
        /\ threads[t].err = "NotParticipant"
        /\ threads[t].conv \in Stored
        /\ threads[t].socket # k
        /\ ConversationRoom(threads[t].conv) \in sockets[k].rooms

(* the call POST /chat/messages makes for the input of a finished send *)
HttpCall(call) ==
    [Call("sendMessage", "findOne", call.user, call.peer)
        EXCEPT !.conv = IF call.byId THEN call.conv ELSE 0, !.byId = call.byId,
               !.content = call.raw, !.raw = call.raw]

(* C19: a send has the same outcome over the gateway as over HTTP: it is accepted
   exactly when POST /chat/messages accepts the same input (the service lets it pass
   and the content is not empty), and then the stored message and the summary of the
   conversation hold the content as it was sent. *)
EntryPointsAgree ==
    \A t \in Threads :
        /\ threads[t].op = "sendMessage"
        /\ threads[t].pc = "done"
        /\ threads[t].socket = 0 \/ threads[t].emitted
        => LET call == threads[t]
               http == SendCall(HttpCall(call))
           IN /\ (call.err = "none") = (http.err = "none" /\ call.raw # <<>>)
              /\ call.err = "none" =>
                    /\ messages[call.msg].content = http.content
                    /\ conversations[call.conv].lastMessage = Preview(http.content)

(* C20: lastMessageAt of a conversation never moves back, whatever the interleaving of
   the sendMessage calls. *)
LastMessageAtMonotonic ==
    [][\A c \in Stored : conversations'[c].lastMessageAt >= conversations[c].lastMessageAt]_vars

(* C21: deliveredAt of a message is written only by the step that moves its status
   from sent to delivered, and readAt only by the step that moves its status into
   read; each is written while it is null, so once set it is never changed or
   cleared by a later handshake, markConversationRead or send. *)
StampsWrittenOnce ==
    [][\A m \in MsgIds :
          /\ messages'[m].deliveredAt # messages[m].deliveredAt =>
                /\ messages[m].deliveredAt = NoTime
                /\ messages[m].status = "sent"
                /\ messages'[m].status = "delivered"
          /\ messages'[m].readAt # messages[m].readAt =>
                /\ messages[m].readAt = NoTime
                /\ messages[m].status # "read"
                /\ messages'[m].status = "read"]_vars

(* a handshake of B has run at a later time over a message that was delivered and
   then read, and over one that was delivered only *)
StampsWitness ==
    \E t \in Threads, m, n \in MsgIds :
        /\ threads[t].op = "handleConnection"
        /\ threads[t].pc = "done"
        /\ threads[t].user = "B"
        /\ messages[m].receiver = "B"
        /\ messages[m].status = "read"
        /\ messages[m].deliveredAt # NoTime
        /\ messages[m].deliveredAt < now
        /\ messages[n].receiver = "B"
        /\ messages[n].status = "delivered"
        /\ messages[n].deliveredAt < now

(* a send that has run to its end, over HTTP or over the gateway *)
SendEnded(t) ==
    /\ threads[t].op = "sendMessage"
    /\ threads[t].pc = "done"
    /\ threads[t].socket = 0 \/ threads[t].emitted

(* C22: whether or not the broker was reached at startup, the gateway listens; without
   the broker, a send that the service and the handler let pass succeeds, its message
   and the increment of the counter are stored, and what a handler emits to the room
   of the receiver reaches every open connection of the receiver in this process. *)
DegradedStillServes ==
    /\ adapter # "none" => Listening
    /\ adapter = "local" =>
          \A t \in Threads :
              SendEnded(t) =>
                 LET call == threads[t]
                 IN /\ call.err \in {"none", "SelfSend", "Forbidden"}
                    /\ (call.err = "none") =
                          /\ SendCall(HttpCall(call)).err = "none"
                          /\ call.socket # 0 => call.peer # call.user
                    /\ call.err = "none" =>
                          /\ call.msg \in MsgIds
                          /\ messages[call.msg].conversation = call.conv
                          /\ messages[call.msg].receiver = call.peer
                          /\ UnreadOf(conversations[call.conv].unreadCount, call.peer) >= 1
                          /\ call.socket # 0 =>
                                \A k \in SocketIds :
                                    /\ sockets[k].state = "open"
                                    /\ sockets[k].token.sub = call.peer
                                    => \E e \in call.emits :
                                          /\ e.event = "receive_message"
                                          /\ k \in Members(e.to)

(* without the broker, a send of A over the gateway has reached an open connection
   of B *)
DegradedWitness ==
    \E t \in Threads, k \in SocketIds :
        /\ adapter = "local"
        /\ SendEnded(t)
        /\ threads[t].socket # 0
        /\ threads[t].err = "none"
        /\ threads[t].peer = "B"
        /\ sockets[k].state = "open"
        /\ sockets[k].token.sub = "B"
        /\ \E e \in threads[t].emits : e.event = "receive_message" /\ e.to = UserRoom("B")
        /\ k \in Members(UserRoom("B"))

(* C23: fetching a single conversation fails with NotFound when no conversation with
   that id is stored (or it is soft-deleted), fails with Forbidden when it is stored
   and the caller is not one of its participants, and succeeds otherwise. *)
FetchDistinguishes ==
    \A t \in Threads :
        threads[t].op = "getConversation" /\ threads[t].pc = "done" =>
           LET c == threads[t].conv
           IN threads[t].err =
                 IF c \notin Stored \/ conversations[c].isDeleted THEN "NotFound"
                 ELSE IF threads[t].user \notin ParticipantSet(c) THEN "Forbidden"
                 ELSE "none"

(* what a typing event that goes through leaves in the registry: typing_start a key
   with an expiry, typing_stop no key *)
TypingSetAndRemoved ==
    \A t \in Threads :
        threads[t].op = "idle" /\ threads'[t].err = "none" =>
           /\ threads'[t].op = "handleTypingStart" =>
                 [key |-> <<threads'[t].conv, threads'[t].user>>, expires |-> TRUE] \in typing'
           /\ threads'[t].op = "handleTypingStop" =>
                 \A k \in typing' : k.key # <<threads'[t].conv, threads'[t].user>>

(* C24: setTyping(c, u, true) creates the record of (c, u) with an expiry,
   setTyping(c, u, false) removes it at once, and every typing record that is set is
   absent again later, also when no typing_stop follows. *)
TypingNeverOutlivesTtl ==
    /\ [][TypingSetAndRemoved]_vars
    /\ \A c \in ConvIds, u \in Users : IsTyping(c, u) ~> ~IsTyping(c, u)

(* the typing record of a user is set while no connection of the user is open any
   more: the connection went away without a typing_stop *)
TypingWitness ==
    \E c \in ConvIds, k \in SocketIds :
        /\ sockets[k].state = "closed"
        /\ IsTyping(c, sockets[k].token.sub)
        /\ \A j \in SocketIds :
              sockets[j].token.sub = sockets[k].token.sub => sockets[j].state # "open"

(* C25: once a message is stored, no step changes its conversation, sender, receiver,
   content or createdAt, and no step removes it; isDeleted only goes from false to true,
   and only in a softDelete called by the sender of the message, which answers with that
   message; a softDelete called by anybody else changes no message and answers null.
   (messageType is not modelled: no code of the module writes it after create.) *)
MessagesKeepIdentity ==
    [][/\ Len(messages') >= Len(messages)
       /\ \A m \in MsgIds :
             /\ messages'[m].conversation = messages[m].conversation
             /\ messages'[m].sender = messages[m].sender
             /\ messages'[m].receiver = messages[m].receiver
             /\ messages'[m].content = messages[m].content
             /\ messages'[m].createdAt = messages[m].createdAt
             /\ messages[m].isDeleted => messages'[m].isDeleted
             /\ messages'[m].isDeleted # messages[m].isDeleted =>
                   \E t \in Threads : /\ threads[t].op = "idle"
                                      /\ threads'[t].op = "softDelete"
                                      /\ threads'[t].user = messages[m].sender
                                      /\ threads'[t].msg = m
       /\ \A t \in Threads :
             threads[t].op = "idle" /\ threads'[t].op = "softDelete" =>
                \A m \in MsgIds :
                   threads'[t].user # messages[m].sender =>
                      messages'[m] = messages[m] /\ threads'[t].msg # m]_vars

(* a deleted message of A that B has read, with a softDelete of B or C just answered *)
MessagesKeepIdentityWitness ==
    \E m \in MsgIds, t \in Threads :
       /\ messages[m].isDeleted
       /\ messages[m].sender = "A"
       /\ threads[t].op = "softDelete"
       /\ threads[t].user # "A"
       /\ threads[t].msg = 0
       /\ \E n \in MsgIds : messages[n].status = "read"

(* the sendMessage and markConversationRead calls that have not returned *)
CountersInFlight ==
    {t \in Threads : threads[t].op \in {"sendMessage", "markMessagesAsRead"}}

(* C26: in every state with no sendMessage and no markConversationRead in flight, the
   unread counter of every participant u of every conversation c is the number of
   non-deleted messages of c addressed to u whose status is not read, however the
   sends and the reads before that state have interleaved. *)
UnreadCountConsistent ==
    CountersInFlight = {} =>
        \A c \in Stored : \A u \in ParticipantSet(c) :
            UnreadOf(conversations[c].unreadCount, u)
                = Cardinality({m \in Unread(c, u) : ~messages[m].isDeleted})

(* C27: the sender and the receiver of every stored message are the two participants of
   its conversation: a sendMessage with a conversationId stores no message for a
   receiver that is not the other participant. *)
PartiesAreParticipants ==
    \A m \in MsgIds :
        {messages[m].sender, messages[m].receiver}
            = ParticipantSet(messages[m].conversation)

(* the messages of conversation c with the greatest createdAt *)
Latest(c) ==
    {m \in MsgIds : /\ messages[m].conversation = c
                    /\ \A n \in MsgIds : messages[n].conversation = c
                                            => messages[n].createdAt <= messages[m].createdAt}

(* C28: whenever no sendMessage is in flight, lastMessage and lastMessageSender of every
   conversation that holds a message are the 100-character preview of the content and
   the sender of a message with the greatest createdAt in it, however the sends before
   have interleaved. *)
SummaryIsLatest ==
    (\A t \in Threads : threads[t].op # "sendMessage") =>
        \A c \in Stored :
            Latest(c) # {} =>
                \E m \in Latest(c) :
                    /\ conversations[c].lastMessage = Preview(messages[m].content)
                    /\ conversations[c].lastMessageSender = messages[m].sender

(* the users with a connection that has passed the handshake and is still open *)
Connected == {sockets[k].token.sub : k \in {j \in SocketIds : sockets[j].state = "open"}}

(* C29: while a user has at least one authenticated connection open, it is online: its
   online key does not expire while the connection is open, and the disconnection of
   one of its two connections does not take it offline. *)
OnlineWhileConnected == \A u \in Connected : IsUserOnline(u)

(* the handshake of a connection of u runs its delivery pass in this step *)
DeliveryPass(u) ==
    \E t \in Threads : /\ threads[t].op = "handleConnection"
                       /\ threads[t].user = u
                       /\ threads[t].pc = "markDelivered"
                       /\ threads'[t].pc = "done"

(* C30: a message goes from sent to delivered only in the delivery pass of a handshake
   of its receiver: a message sent over HTTP or over the gateway is stored as sent, also
   when its receiver is connected and receive_message is emitted to it, and stays sent
   until the receiver opens a new connection or marks the conversation read; no send,
   emission, typing event or status query moves a message to delivered. *)
DeliveredOnlyByHandshake ==
    [][\A m \in DOMAIN messages' :
          IF m \notin MsgIds
          THEN messages'[m].status = "sent"
          ELSE /\ messages'[m].status = "delivered" /\ messages[m].status # "delivered"
                  => messages[m].status = "sent" /\ DeliveryPass(messages[m].receiver)
               /\ messages[m].status = "sent" /\ messages'[m].status = "read"
                  => \E t \in Threads : /\ threads[t].op = "markMessagesAsRead"
                                        /\ threads[t].user = messages[m].receiver
                                        /\ threads[t].pc = "markAsRead"]_vars

(* B is connected; A's send over its own connection has emitted receive_message to the
   room of B, which B's connection is in, and the message is still sent, while an
   earlier message has been delivered by a handshake of B *)
DeliveredOnlyByHandshakeWitness ==
    \E t \in Threads, k \in SocketIds :
        /\ SendEnded(t)
        /\ threads[t].socket # 0
        /\ threads[t].err = "none"
        /\ threads[t].peer = "B"
        /\ sockets[k].state = "open"
        /\ sockets[k].token.sub = "B"
        /\ k \in Members(UserRoom("B"))
        /\ \E e \in threads[t].emits :
              /\ e.event = "receive_message"
              /\ e.to = UserRoom("B")
              /\ e.n = threads[t].msg
        /\ messages[threads[t].msg].status = "sent"
        /\ \E n \in MsgIds : messages[n].status = "delivered"
====
